---- MODULE Spec2Model ----
(***************************************************************************)
(* Model of the RAG benchmark scripts: createDB_1.py, evaulate_retriever.py*)
(* evaluate_reranker4.py, evaulate_final5.py and                           *)
(* evaluate_retriever_exact_match6.py.  Each script is a sequential        *)
(* program; it gets its own specification over its own variables, the      *)
(* variables of the other scripts stay at their idle values.               *)
(*                                                                         *)
(* Text is a sequence of one-character strings.  A value that is not a     *)
(* string (None, a pandas NaN) is the one-element sequence NaN.            *)
(***************************************************************************)
EXTENDS Integers, Sequences, FiniteSets, TLC

\* ------------------------------------------------------------------------
\* Bounds of the model
\* ------------------------------------------------------------------------
MaxPathLen == 3
MaxQuestions == 2
MaxChunks == 4
MaxBytes == 3
MaxDocs == 2
MaxTextLen == 3
MaxRows == 2

\* ------------------------------------------------------------------------
\* Text helpers (Python str operations)
\* ------------------------------------------------------------------------
NaN == <<"NaN">>

PathChars == {"a", "A", "/", " "}

RECURSIVE SeqsUpTo(_, _)
SeqsUpTo(S, n) ==
    IF n = 0 THEN {<<>>}
    ELSE LET shorter == SeqsUpTo(S, n - 1)
         IN shorter \cup {Append(s, c) : s \in {t \in shorter : Len(t) = n - 1}, c \in S}

isinstance_str(x) == x # NaN

\* str.lower()
LowerChar(c) == IF c = "A" THEN "a" ELSE IF c = "B" THEN "b" ELSE c

lower(s) == [i \in 1..Len(s) |-> LowerChar(s[i])]

IsSpace(c) == c \in {" ", "\n"}

\* str.strip(): drop leading and trailing whitespace
RECURSIVE lstrip(_)
lstrip(s) == IF s # <<>> /\ IsSpace(Head(s)) THEN lstrip(Tail(s)) ELSE s

RECURSIVE rstrip(_)
rstrip(s) ==
    IF s # <<>> /\ IsSpace(s[Len(s)]) THEN rstrip(SubSeq(s, 1, Len(s) - 1)) ELSE s

strip(s) == rstrip(lstrip(s))

\* os.path.basename(): what follows the last separator
basename(p) ==
    LET seps == {i \in 1..Len(p) : p[i] = "/"}
        last == IF seps = {} THEN 0 ELSE CHOOSE i \in seps : \A j \in seps : j <= i
    IN SubSeq(p, last + 1, Len(p))

\* Python "a in b" on two strings: a occurs in b as a contiguous run
str_in(a, b) ==
    \E i \in 1..(Len(b) - Len(a) + 1) : SubSeq(b, i, i + Len(a) - 1) = a

\* ------------------------------------------------------------------------
\* evaluate_retriever_exact_match6.py : helper functions
\* ------------------------------------------------------------------------
normalize_filename(path_str) ==
    IF ~isinstance_str(path_str) THEN <<>>
    ELSE lower(strip(basename(path_str)))

check_source_match_exact(target_path, retrieved_path) ==
    normalize_filename(target_path) = normalize_filename(retrieved_path)

check_source_match(target_path, retrieved_path) ==
    LET t == normalize_filename(target_path)
        r == normalize_filename(retrieved_path)
    IN str_in(t, r) \/ str_in(r, t)

\* ------------------------------------------------------------------------
\* Shared data shapes
\* ------------------------------------------------------------------------
Min(a, b) == IF a <= b THEN a ELSE b

\* Python slice s[:k]
Take(s, k) == SubSeq(s, 1, Min(k, Len(s)))

\* chunk metadata is a dict; a chunk stored without a source has no such key
NoMeta == [key \in {} |-> <<>>]

MetaOf(path) == [source |-> path]

\* dict.get(key, default)
dict_get(d, key, default) == IF key \in DOMAIN d THEN d[key] ELSE default

\* the documents of the corpus, as the paths stored with their chunks
DocA == <<"d", "/", "a">>
DocB == <<"d", "/", "b">>

ChunkMetas == {MetaOf(DocA), MetaOf(DocB), NoMeta}

\* ------------------------------------------------------------------------
\* Variables
\* ------------------------------------------------------------------------
VARIABLES
    \* check_source_match called on its own
    sm_pc, sm_target, sm_retrieved, sm_result,
    \* evaulate_retriever.py : evaluate_db
    rt_pc, eval_data, rt_done, results, rt_retrieved,
    \* evaulate_retriever.py : load_eval_set_from_csv
    csv_pc, csv_exists, csv_bytes, csv_next, csv_opened, file_content, used_encoding,
    csv_data,
    \* evaulate_final5.py : run_final_evaluation
    fin_pc, fin_csv_ok, test_data, fin_model, fin_done, fin_locals, fin_raised,
    all_logs, report_file, fin_console,
    \* evaluate_retriever_exact_match6.py : run_hybrid_evaluation
    hy_pc, hy_csv_ok, path_col, hy_data, hy_done, hy_docs, hy_locals,
    hits_1, hits_3, mrr_sum, logs, hy_first_hit, hy_report,
    \* evaluate_reranker4.py : evaluate_with_reranker
    rr_pc, rr_csv_ok, rr_data, rr_done, rr_results, ranked_results,
    final_candidates, top_k_candidates, hits_at_1, hits_at_3, rr_queries,
    \* createDB_1.py : main block
    cdb_pc, raw_docs, vector_dbs, benchmark_metrics, cdb_step, metrics_json,
    \* evaulate_final5.py : calculate_em and calculate_f1 called on their own
    mt_pc, mt_prediction, mt_ground_truth, mt_em, mt_f1

varsSourceMatch == <<sm_pc, sm_target, sm_retrieved, sm_result>>

varsRetriever == <<rt_pc, eval_data, rt_done, results, rt_retrieved>>

varsLoadCsv ==
    <<csv_pc, csv_exists, csv_bytes, csv_next, csv_opened, file_content, used_encoding,
      csv_data>>

varsFinal ==
    <<fin_pc, fin_csv_ok, test_data, fin_model, fin_done, fin_locals, fin_raised,
      all_logs, report_file, fin_console>>

varsHybrid ==
    <<hy_pc, hy_csv_ok, path_col, hy_data, hy_done, hy_docs, hy_locals,
      hits_1, hits_3, mrr_sum, logs, hy_first_hit, hy_report>>

varsReranker ==
    <<rr_pc, rr_csv_ok, rr_data, rr_done, rr_results, ranked_results,
      final_candidates, top_k_candidates, hits_at_1, hits_at_3, rr_queries>>

varsCreateDb == <<cdb_pc, raw_docs, vector_dbs, benchmark_metrics, cdb_step, metrics_json>>

varsMetrics == <<mt_pc, mt_prediction, mt_ground_truth, mt_em, mt_f1>>

vars ==
    <<varsSourceMatch, varsRetriever, varsLoadCsv, varsFinal, varsHybrid,
      varsReranker, varsCreateDb, varsMetrics>>

\* what each script leaves alone: the variables of the other scripts
frameSourceMatch ==
    <<varsRetriever, varsLoadCsv, varsFinal, varsHybrid, varsReranker, varsCreateDb, varsMetrics>>

frameRetriever ==
    <<varsSourceMatch, varsLoadCsv, varsFinal, varsHybrid, varsReranker, varsCreateDb, varsMetrics>>

frameLoadCsv ==
    <<varsSourceMatch, varsRetriever, varsFinal, varsHybrid, varsReranker, varsCreateDb, varsMetrics>>

frameFinal ==
    <<varsSourceMatch, varsRetriever, varsLoadCsv, varsHybrid, varsReranker, varsCreateDb, varsMetrics>>

frameHybrid ==
    <<varsSourceMatch, varsRetriever, varsLoadCsv, varsFinal, varsReranker, varsCreateDb, varsMetrics>>

frameReranker ==
    <<varsSourceMatch, varsRetriever, varsLoadCsv, varsFinal, varsHybrid, varsCreateDb, varsMetrics>>

frameCreateDb ==
    <<varsSourceMatch, varsRetriever, varsLoadCsv, varsFinal, varsHybrid, varsReranker,
      varsMetrics>>

frameMetrics ==
    <<varsSourceMatch, varsRetriever, varsLoadCsv, varsFinal, varsHybrid, varsReranker,
      varsCreateDb>>

\* a script that is not running
IdleSourceMatch ==
    /\ sm_pc = "idle"
    /\ sm_target = <<>>
    /\ sm_retrieved = <<>>
    /\ sm_result = FALSE

IdleRetriever ==
    /\ rt_pc = "idle"
    /\ eval_data = <<>>
    /\ rt_done = 0
    /\ results = <<>>
    /\ rt_retrieved = <<>>

IdleLoadCsv ==
    /\ csv_pc = "idle"
    /\ csv_exists = FALSE
    /\ csv_bytes = <<>>
    /\ csv_next = 1
    /\ csv_opened = <<>>
    /\ file_content = [assigned |-> FALSE, lines |-> <<>>]
    /\ used_encoding = "None"
    /\ csv_data = <<>>

IdleFinal ==
    /\ fin_pc = "idle"
    /\ fin_csv_ok = FALSE
    /\ test_data = <<>>
    /\ fin_model = 1
    /\ fin_done = 0
    /\ fin_locals = <<>>
    /\ fin_raised = "None"
    /\ all_logs = <<>>
    /\ report_file = <<>>
    /\ fin_console = <<>>

IdleHybrid ==
    /\ hy_pc = "idle"
    /\ hy_csv_ok = FALSE
    /\ path_col = "None"
    /\ hy_data = <<>>
    /\ hy_done = 0
    /\ hy_docs = <<>>
    /\ hy_locals = <<>>
    /\ hits_1 = 0
    /\ hits_3 = 0
    /\ mrr_sum = 0
    /\ logs = <<>>
    /\ hy_first_hit = <<>>
    /\ hy_report = <<>>

IdleReranker ==
    /\ rr_pc = "idle"
    /\ rr_csv_ok = FALSE
    /\ rr_data = <<>>
    /\ rr_done = 0
    /\ rr_results = <<>>
    /\ ranked_results = <<>>
    /\ final_candidates = <<>>
    /\ top_k_candidates = <<>>
    /\ hits_at_1 = 0
    /\ hits_at_3 = 0
    /\ rr_queries = 0

IdleCreateDb ==
    /\ cdb_pc = "idle"
    /\ raw_docs = 0
    /\ vector_dbs = <<>>
    /\ benchmark_metrics = <<>>
    /\ cdb_step = 1
    /\ metrics_json = <<>>

IdleMetrics ==
    /\ mt_pc = "idle"
    /\ mt_prediction = <<>>
    /\ mt_ground_truth = <<>>
    /\ mt_em = 0
    /\ mt_f1 = 0

\* ------------------------------------------------------------------------
\* Specification SpecSourceMatch: check_source_match on every pair of inputs
\* ------------------------------------------------------------------------
PathInputs == SeqsUpTo(PathChars, MaxPathLen) \cup {NaN}

InitSourceMatch ==
    /\ sm_pc = "call"
    /\ sm_target \in PathInputs
    /\ sm_retrieved \in PathInputs
    /\ sm_result = FALSE
    /\ IdleRetriever /\ IdleLoadCsv /\ IdleFinal /\ IdleHybrid /\ IdleReranker /\ IdleCreateDb
    /\ IdleMetrics

CallCheckSourceMatch ==
    /\ sm_pc = "call"
    /\ sm_result' = check_source_match(sm_target, sm_retrieved)
    /\ sm_pc' = "returned"
    /\ UNCHANGED <<sm_target, sm_retrieved>>
    /\ UNCHANGED frameSourceMatch

NextSourceMatch == CallCheckSourceMatch

SpecSourceMatch == InitSourceMatch /\ [][NextSourceMatch]_vars

\* x occurs in y: y is some prefix, then x, then some suffix
OccursIn(x, y) ==
    \E before \in 0..Len(y), after \in 0..Len(y) :
        /\ before + Len(x) + after = Len(y)
        /\ \A n \in 1..Len(x) : y[before + n] = x[n]

\* C4 as written: check_source_match reports a match only when the two
\* normalized filenames are equal.
C4_ExactMatchOnly ==
    (sm_pc = "returned" /\ sm_result)
        => normalize_filename(sm_target) = normalize_filename(sm_retrieved)

\* C4 amended: check_source_match returns true exactly when one normalized
\* filename occurs inside the other; equal names always match, and an empty
\* or non-string input matches every name.
C4_ContainmentMatch ==
    sm_pc = "returned" =>
        LET t == normalize_filename(sm_target)
            r == normalize_filename(sm_retrieved)
        IN /\ sm_result <=> (OccursIn(t, r) \/ OccursIn(r, t))
           /\ t = r => sm_result
           /\ (~isinstance_str(sm_target) \/ ~isinstance_str(sm_retrieved)) => sm_result

\* C4 witness: a match between two different, non-empty filenames
C4_Witness ==
    /\ sm_pc = "returned"
    /\ sm_result
    /\ normalize_filename(sm_target) # <<>>
    /\ normalize_filename(sm_retrieved) # <<>>
    /\ normalize_filename(sm_target) # normalize_filename(sm_retrieved)

\* ------------------------------------------------------------------------
\* Specification SpecRetriever: evaulate_retriever.py, evaluate_db
\* ------------------------------------------------------------------------
K_VALUES == <<1, 3, 4, 5>>

KSet == {K_VALUES[n] : n \in 1..Len(K_VALUES)}

max_k == CHOOSE k \in KSet : \A other \in KSet : other <= k

EvalItems == [question : {"q"}, source_doc : {DocA, DocB}]

\* what db.similarity_search(question, k) can return from a store of at
\* most MaxChunks chunks
SearchResults(k) == SeqsUpTo(ChunkMetas, Min(k, MaxChunks))

\* line 118: the basename of each retrieved chunk's source
retrieved_sources(retrieved_docs) ==
    [j \in 1..Len(retrieved_docs) |->
        basename(dict_get(retrieved_docs[j], "source", <<>>))]

\* lines 124-130: the match check over the first k sources
match_found(target_clean, current_retrieved) ==
    \E j \in 1..Len(current_retrieved) :
        \/ str_in(target_clean, current_retrieved[j])
        \/ str_in(current_retrieved[j], target_clean)

InitRetriever ==
    /\ rt_pc = "start"
    /\ eval_data \in SeqsUpTo(EvalItems, MaxQuestions)
    /\ rt_done = 0
    /\ results = <<>>
    /\ rt_retrieved = <<>>
    /\ IdleSourceMatch /\ IdleLoadCsv /\ IdleFinal /\ IdleHybrid /\ IdleReranker /\ IdleCreateDb
    /\ IdleMetrics

\* lines 94-104
EvaluateDbStart ==
    /\ rt_pc = "start"
    /\ results' = [k \in KSet |-> [hits |-> 0, recall |-> 0]]
    /\ rt_pc' = "loop"
    /\ UNCHANGED <<eval_data, rt_done, rt_retrieved>>
    /\ UNCHANGED frameRetriever

\* lines 106-133: one iteration of the loop over eval_data
EvaluateDbQuestion ==
    /\ rt_pc = "loop"
    /\ rt_done < Len(eval_data)
    /\ \E retrieved_docs \in SearchResults(max_k) :
        LET item == eval_data[rt_done + 1]
            target_clean == basename(item.source_doc)
            sources == retrieved_sources(retrieved_docs)
        IN /\ results' = [k \in KSet |->
                  IF match_found(target_clean, Take(sources, k))
                  THEN [results[k] EXCEPT !.hits = @ + 1]
                  ELSE results[k]]
           /\ rt_retrieved' = Append(rt_retrieved, retrieved_docs)
    /\ rt_done' = rt_done + 1
    /\ UNCHANGED <<rt_pc, eval_data>>
    /\ UNCHANGED frameRetriever

\* lines 135-143: the report divides by the number of questions
EvaluateDbReport ==
    /\ rt_pc = "loop"
    /\ rt_done = Len(eval_data)
    /\ rt_pc' = IF Len(eval_data) = 0 THEN "ZeroDivisionError" ELSE "returned"
    /\ UNCHANGED <<eval_data, rt_done, results, rt_retrieved>>
    /\ UNCHANGED frameRetriever

NextRetriever ==
    \/ EvaluateDbStart
    \/ EvaluateDbQuestion
    \/ EvaluateDbReport

SpecRetriever == InitRetriever /\ [][NextRetriever]_vars

\* the chunk comes from the file the question's source path names
IsCorrectSource(meta, source_doc) ==
    /\ "source" \in DOMAIN meta
    /\ basename(meta.source) = basename(source_doc)

CorrectSourceInTopK(q, k) ==
    \E j \in 1..Min(k, Len(rt_retrieved[q])) :
        IsCorrectSource(rt_retrieved[q][j], eval_data[q].source_doc)

\* C1: when evaluate_db returns, results[K].hits is the number of questions
\* whose correct source document is the source of one of the first K
\* retrieved chunks; chunks of other documents or without source metadata
\* do not make a hit.
C1_HitsCountCorrectSource ==
    rt_pc = "returned" =>
        \A k \in KSet :
            results[k].hits =
                Cardinality({q \in 1..Len(eval_data) : CorrectSourceInTopK(q, k)})

\* ------------------------------------------------------------------------
\* Specification SpecLoadCsv: evaulate_retriever.py, load_eval_set_from_csv
\* ------------------------------------------------------------------------
\* The bytes a golden-QA.csv is drawn from: 'A', line feed, the lone
\* continuation byte 0x81 (undefined in cp1252), the two-byte lead 0xC3,
\* the three-byte lead 0xE9 and the byte order mark EF BB BF.
FileBytes == {65, 10, 129, 195, 233, 239, 187, 191}

\* the outcome of a decode: the text, or a UnicodeDecodeError
Decoded(text) == [ok |-> TRUE, text |-> text]

UnicodeDecodeError == [ok |-> FALSE, text |-> <<>>]

IsContinuation(b) == b \in 128..191

\* bytes.decode('utf-8'): the code points, or an error on a malformed
\* sequence (one- to three-byte forms)
RECURSIVE utf_8(_)
utf_8(b) ==
    IF b = <<>> THEN Decoded(<<>>)
    ELSE LET width ==
                 IF b[1] < 128 THEN 1
                 ELSE IF /\ b[1] \in 194..223
                         /\ Len(b) >= 2 /\ IsContinuation(b[2]) THEN 2
                 ELSE IF /\ b[1] \in 224..239
                         /\ Len(b) >= 3 /\ IsContinuation(b[2]) /\ IsContinuation(b[3])
                         /\ (b[1] = 224 => b[2] >= 160)
                         /\ (b[1] = 237 => b[2] <= 159) THEN 3
                 ELSE 0
             point ==
                 IF width = 1 THEN b[1]
                 ELSE IF width = 2 THEN (b[1] - 192) * 64 + (b[2] - 128)
                 ELSE (b[1] - 224) * 4096 + (b[2] - 128) * 64 + (b[3] - 128)
         IN IF width = 0 THEN UnicodeDecodeError
            ELSE LET rest == utf_8(SubSeq(b, width + 1, Len(b)))
                 IN IF rest.ok THEN Decoded(<<point>> \o rest.text)
                    ELSE UnicodeDecodeError

\* 'utf-8-sig': utf-8 that drops one leading byte order mark
utf_8_sig(b) ==
    IF Len(b) >= 3 /\ SubSeq(b, 1, 3) = <<239, 187, 191>>
    THEN utf_8(SubSeq(b, 4, Len(b)))
    ELSE utf_8(b)

\* 'cp1252': five bytes have no character; 0x80..0x9F map to the Windows
\* punctuation block, every other byte to the code point of its value
Cp1252Undefined == {129, 141, 143, 144, 157}

Cp1252High ==
    <<8364, 0, 8218, 402, 8222, 8230, 8224, 8225, 710, 8240, 352, 8249, 338, 0, 381, 0,
      0, 8216, 8217, 8220, 8221, 8226, 8211, 8212, 732, 8482, 353, 8250, 339, 0, 382, 376>>

cp1252(b) ==
    IF \E n \in 1..Len(b) : b[n] \in Cp1252Undefined THEN UnicodeDecodeError
    ELSE Decoded([n \in 1..Len(b) |->
                     IF b[n] \in 128..159 THEN Cp1252High[b[n] - 127] ELSE b[n]])

\* 'latin-1': every byte is the code point of its value
latin_1(b) == Decoded(b)

decode(b, enc) ==
    IF enc = "utf-8-sig" THEN utf_8_sig(b)
    ELSE IF enc = "cp1252" THEN cp1252(b)
    ELSE latin_1(b)

\* text mode with universal newlines: "\r\n" and "\r" are read as "\n"
RECURSIVE translate_newlines(_)
translate_newlines(t) ==
    IF t = <<>> THEN <<>>
    ELSE IF t[1] = 13 /\ Len(t) >= 2 /\ t[2] = 10
         THEN <<10>> \o translate_newlines(SubSeq(t, 3, Len(t)))
    ELSE IF t[1] = 13 THEN <<10>> \o translate_newlines(Tail(t))
    ELSE <<t[1]>> \o translate_newlines(Tail(t))

\* f.readlines(): the lines of the text, each with its line feed
RECURSIVE split_lines(_)
split_lines(t) ==
    IF t = <<>> THEN <<>>
    ELSE LET feeds == {n \in 1..Len(t) : t[n] = 10}
             stop == IF feeds = {} THEN Len(t)
                     ELSE CHOOSE n \in feeds : \A other \in feeds : n <= other
         IN <<SubSeq(t, 1, stop)>> \o split_lines(SubSeq(t, stop + 1, Len(t)))

\* open(..., encoding=enc) and f.readlines()
readlines(b, enc) ==
    LET d == decode(b, enc)
    IN IF d.ok THEN [ok |-> TRUE, lines |-> split_lines(translate_newlines(d.text))]
       ELSE [ok |-> FALSE, lines |-> <<>>]

encodings_to_try_swapped == <<"cp1252", "utf-8-sig", "latin-1">>

encodings_to_try == <<"utf-8-sig", "cp1252", "latin-1">>

\* line 54: "not file_content" holds for None and for the empty list
not_content(fc) == ~fc.assigned \/ fc.lines = <<>>

InitLoadCsv ==
    /\ csv_pc = "exists"
    /\ csv_exists \in BOOLEAN
    /\ csv_bytes \in SeqsUpTo(FileBytes, MaxBytes)
    /\ (~csv_exists => csv_bytes = <<>>)
    /\ csv_next = 1
    /\ csv_opened = <<>>
    /\ file_content = [assigned |-> FALSE, lines |-> <<>>]
    /\ used_encoding = "None"
    /\ csv_data = <<>>
    /\ IdleSourceMatch /\ IdleRetriever /\ IdleFinal /\ IdleHybrid /\ IdleReranker /\ IdleCreateDb
    /\ IdleMetrics

\* lines 32-41
CsvExistsCheck ==
    /\ csv_pc = "exists"
    /\ csv_pc' = IF csv_exists THEN "try" ELSE "exited"
    /\ UNCHANGED <<csv_exists, csv_bytes, csv_next, csv_opened, file_content, used_encoding,
                   csv_data>>
    /\ UNCHANGED frameLoadCsv

\* lines 44-52: one iteration of the loop over encodings_to_try
TryEncoding ==
    /\ csv_pc = "try"
    /\ LET enc == encodings_to_try[csv_next]
           read == readlines(csv_bytes, enc)
       IN /\ csv_opened' = Append(csv_opened, enc)
          /\ IF read.ok
             THEN /\ file_content' = [assigned |-> TRUE, lines |-> read.lines]
                  /\ used_encoding' = enc
                  /\ csv_pc' = "check"
                  /\ UNCHANGED csv_next
             ELSE /\ csv_next' = csv_next + 1
                  /\ csv_pc' = IF csv_next = Len(encodings_to_try) THEN "check" ELSE "try"
                  /\ UNCHANGED <<file_content, used_encoding>>
    /\ UNCHANGED <<csv_exists, csv_bytes, csv_data>>
    /\ UNCHANGED frameLoadCsv

\* lines 54-56
CheckContent ==
    /\ csv_pc = "check"
    /\ csv_pc' = IF not_content(file_content) THEN "exited" ELSE "parse"
    /\ UNCHANGED <<csv_exists, csv_bytes, csv_next, csv_opened, file_content, used_encoding,
                   csv_data>>
    /\ UNCHANGED frameLoadCsv

\* the code points of ',' and ';'
COMMA == 44

SEMICOLON == 59

\* lines 59-61
detect_delimiter(fc) ==
    IF \E n \in 1..Len(fc[1]) : fc[1][n] = SEMICOLON THEN SEMICOLON ELSE COMMA

\* csv.reader on text without quote characters: the fields of a record are
\* the pieces between the delimiters
RECURSIVE csv_fields(_, _)
csv_fields(body, delimiter) ==
    LET cuts == {n \in 1..Len(body) : body[n] = delimiter}
    IN IF cuts = {} THEN <<body>>
       ELSE LET cut == CHOOSE n \in cuts : \A other \in cuts : n <= other
            IN <<SubSeq(body, 1, cut - 1)>>
                   \o csv_fields(SubSeq(body, cut + 1, Len(body)), delimiter)

\* one line of file_content as csv.reader yields it: the line feed ends the
\* record, and an empty line is the record []
csv_reader_row(line, delimiter) ==
    LET body == IF line # <<>> /\ line[Len(line)] = 10
                THEN SubSeq(line, 1, Len(line) - 1) ELSE line
    IN IF body = <<>> THEN <<>> ELSE csv_fields(body, delimiter)

\* line 66
csv_reader(fc, delimiter) ==
    [n \in 1..Len(fc) |-> csv_reader_row(fc[n], delimiter)]

\* the code points str.strip() removes: those str.isspace() holds for
Whitespace ==
    (9..13) \cup (28..32) \cup {133, 160, 5760} \cup (8192..8202)
        \cup {8232, 8233, 8239, 8287, 12288}

\* str.strip() on decoded text
RECURSIVE str_strip(_)
str_strip(t) ==
    IF t = <<>> THEN <<>>
    ELSE IF t[1] \in Whitespace THEN str_strip(Tail(t))
    ELSE IF t[Len(t)] \in Whitespace THEN str_strip(SubSeq(t, 1, Len(t) - 1))
    ELSE t

rows_with_header(rows) == rows

\* line 69: next(reader, None) takes the first record off the reader
rows_after_header(rows) ==
    IF rows = <<>> THEN <<>> ELSE Tail(rows)

\* lines 71-83: the loop over the remaining records
RECURSIVE parse_rows(_)
parse_rows(rows) ==
    IF rows = <<>> THEN <<>>
    ELSE LET row == rows[1]
         IN IF Len(row) < 3 THEN parse_rows(Tail(rows))
            ELSE LET question == str_strip(row[1])
                     source_doc == str_strip(row[3])
                 IN IF question # <<>> /\ source_doc # <<>>
                    THEN <<[question |-> question, source_doc |-> source_doc]>>
                             \o parse_rows(Tail(rows))
                    ELSE parse_rows(Tail(rows))

\* lines 58-87
ParseContent ==
    /\ csv_pc = "parse"
    /\ LET delimiter == detect_delimiter(file_content.lines)
           reader == csv_reader(file_content.lines, delimiter)
       IN csv_data' = parse_rows(rows_after_header(reader))
    /\ csv_pc' = "returned"
    /\ UNCHANGED <<csv_exists, csv_bytes, csv_next, csv_opened, file_content, used_encoding>>
    /\ UNCHANGED frameLoadCsv

NextLoadCsv ==
    \/ CsvExistsCheck
    \/ TryEncoding
    \/ CheckContent
    \/ ParseContent

SpecLoadCsv == InitLoadCsv /\ [][NextLoadCsv]_vars

IsPrefixOf(s, t) == Len(s) <= Len(t) /\ SubSeq(t, 1, Len(s)) = s

\* the file decodes as a whole under the encoding
Decodes(enc) ==
    IF enc = "utf-8-sig" THEN utf_8_sig(csv_bytes).ok
    ELSE IF enc = "cp1252" THEN cp1252(csv_bytes).ok
    ELSE TRUE

\* C7: the encodings are tried in the order utf-8-sig, cp1252, latin-1; the
\* one used is the first that decodes the whole file, nothing is tried after
\* it, and a file that yields no content ends in the error exit without
\* data being returned.
C7_EncodingDetection ==
    LET order == <<"utf-8-sig", "cp1252", "latin-1">>
        tried == Len(csv_opened)
    IN /\ IsPrefixOf(csv_opened, order)
       /\ \A n \in 1..(tried - 1) : ~Decodes(order[n])
       /\ used_encoding # "None" =>
              /\ tried >= 1
              /\ used_encoding = order[tried]
              /\ Decodes(used_encoding)
              /\ file_content.assigned
       /\ (csv_pc = "try" /\ tried >= 1) => ~Decodes(order[tried])
       /\ csv_pc \in {"check", "parse"} => (used_encoding # "None" \/ tried = Len(order))
       /\ csv_pc = "parse" => (used_encoding # "None" /\ file_content.lines # <<>>)
       /\ (csv_pc = "exited" /\ csv_exists) =>
              (used_encoding = "None" \/ file_content.lines = <<>>)

\* C7 witness: utf-8-sig failed, cp1252 decoded the file, latin-1 was not tried
C7_Witness ==
    /\ csv_pc = "parse"
    /\ csv_opened = <<"utf-8-sig", "cp1252">>
    /\ used_encoding = "cp1252"

\* C7 witness of the error exit: the first encoding decoded a file without content
C7_WitnessNoContent ==
    /\ csv_pc = "exited"
    /\ csv_exists
    /\ csv_opened = <<"utf-8-sig">>
    /\ csv_bytes # <<>>

\* ------------------------------------------------------------------------
\* Specification SpecParseCsv: load_eval_set_from_csv on files made of a
\* header line and up to MaxRows data lines
\* ------------------------------------------------------------------------
\* Bytes: 'Q' 81, 'A' 65, 'P' 80, 'q' 113, 'a' 97, 'p' 112, 'x' 120,
\* ';' 59, ',' 44, space 32, line feed 10, carriage return 13, 0xE9 (e
\* acute in cp1252), 0xA0 (no-break space in cp1252), EF BB BF (byte order
\* mark).
HeaderLines ==
    { <<81, 59, 65, 59, 80, 10>>,                   \* Q;A;P
      <<81, 44, 65, 44, 80, 10>>,                   \* Q,A,P
      <<239, 187, 191, 81, 59, 65, 59, 80, 10>>,    \* Q;A;P after a byte order mark
      <<81, 10>>,                                   \* Q
      <<10>> }                                      \* an empty first line

DataLines ==
    { <<113, 59, 97, 59, 112, 10>>,                 \* q;a;p
      <<113, 44, 97, 44, 112, 10>>,                 \* q,a,p
      <<32, 59, 97, 59, 112, 10>>,                  \* blank question
      <<113, 59, 97, 59, 32, 10>>,                  \* blank path
      <<113, 59, 97, 10>>,                          \* two fields
      <<32, 113, 59, 97, 59, 112, 32, 59, 120, 10>>,  \* four fields, padded
      <<10>>,                                       \* empty line
      <<113, 59, 233, 59, 112, 13, 10>>,            \* cp1252 text, CR LF
      <<160, 59, 97, 59, 112, 10>>,                 \* no-break space as question
      <<113, 59, 97, 59, 112>> }                    \* no line feed at the end

RECURSIVE Flatten(_)
Flatten(ss) ==
    IF ss = <<>> THEN <<>> ELSE ss[1] \o Flatten(Tail(ss))

CsvFiles ==
    {h \o Flatten(rows) : h \in HeaderLines, rows \in SeqsUpTo(DataLines, MaxRows)}

InitParseCsv ==
    /\ csv_pc = "exists"
    /\ csv_exists = TRUE
    /\ csv_bytes \in CsvFiles
    /\ csv_next = 1
    /\ csv_opened = <<>>
    /\ file_content = [assigned |-> FALSE, lines |-> <<>>]
    /\ used_encoding = "None"
    /\ csv_data = <<>>
    /\ IdleSourceMatch /\ IdleRetriever /\ IdleFinal /\ IdleHybrid /\ IdleReranker /\ IdleCreateDb
    /\ IdleMetrics

SpecParseCsv == InitParseCsv /\ [][NextLoadCsv]_vars

\* the text of line k of the file, without its line feed
LineText(k) ==
    LET line == file_content.lines[k]
    IN SelectSeq(line, LAMBDA c : c # 10)

\* the delimiter the first line selects
FirstLineDelimiter ==
    IF \E n \in 1..Len(LineText(1)) : LineText(1)[n] = 59 THEN 59 ELSE 44

\* the ends of the fields of line k: before the text, every delimiter, after
\* the text
FieldEnds(k) ==
    {0, Len(LineText(k)) + 1}
        \cup {n \in 1..Len(LineText(k)) : LineText(k)[n] = FirstLineDelimiter}

FieldCount(k) ==
    IF LineText(k) = <<>> THEN 0 ELSE Cardinality(FieldEnds(k)) - 1

\* field i of line k lies between the i-th and the (i+1)-th field end
FieldOf(k, i) ==
    LET nth(j) == CHOOSE e \in FieldEnds(k) :
                      Cardinality({other \in FieldEnds(k) : other < e}) = j - 1
    IN SubSeq(LineText(k), nth(i) + 1, nth(i + 1) - 1)

\* a text without the whitespace around it
Trimmed(t) ==
    LET solid == {n \in 1..Len(t) : t[n] \notin Whitespace}
    IN IF solid = {} THEN <<>>
       ELSE SubSeq(t, CHOOSE n \in solid : \A other \in solid : n <= other,
                      CHOOSE n \in solid : \A other \in solid : n >= other)

\* the data rows that give a record: not the first line, three fields or
\* more, question and path not blank
GivesRecord(k) ==
    /\ k >= 2
    /\ FieldCount(k) >= 3
    /\ Trimmed(FieldOf(k, 1)) # <<>>
    /\ Trimmed(FieldOf(k, 3)) # <<>>

RecordLines == {k \in 1..Len(file_content.lines) : GivesRecord(k)}

\* C11: every record load_eval_set_from_csv returns has a non-empty stripped
\* question and a non-empty stripped source_doc, taken from the first and
\* the third field of a data row: the records are, in file order, those of
\* the lines after the header line that have three fields or more, the
\* fields being split on ';' when the first line contains ';' and on ','
\* otherwise.
C11_RecordsFromDataRows ==
    csv_pc = "returned" =>
        /\ \A n \in 1..Len(csv_data) :
               /\ csv_data[n].question # <<>>
               /\ csv_data[n].source_doc # <<>>
               /\ csv_data[n].question[1] \notin Whitespace
               /\ csv_data[n].source_doc[Len(csv_data[n].source_doc)] \notin Whitespace
        /\ Len(csv_data) = Cardinality(RecordLines)
        /\ \A n \in 1..Len(csv_data) :
               LET k == CHOOSE l \in RecordLines :
                            Cardinality({other \in RecordLines : other < l}) = n - 1
               IN /\ csv_data[n].question = Trimmed(FieldOf(k, 1))
                  /\ csv_data[n].source_doc = Trimmed(FieldOf(k, 3))

\* C11 witness: a file split on ';' whose header line has three non-blank
\* fields, with a data row that is returned and a row of two fields that is
\* skipped
C11_Witness ==
    /\ csv_pc = "returned"
    /\ FirstLineDelimiter = 59
    /\ FieldCount(1) >= 3
    /\ Trimmed(FieldOf(1, 1)) # <<>>
    /\ Trimmed(FieldOf(1, 3)) # <<>>
    /\ Len(csv_data) = 1
    /\ \E k \in 2..Len(file_content.lines) : FieldCount(k) = 2

\* C11 witness of the ',' case: the first line has no ';' and a row split on
\* ',' is returned
C11_WitnessComma ==
    /\ csv_pc = "returned"
    /\ FirstLineDelimiter = 44
    /\ Len(csv_data) >= 1

\* ------------------------------------------------------------------------
\* evaulate_final5.py : metric functions.  A score is kept in thousandths
\* (1000 is 1.0), rounded to the nearest thousandth.
\* ------------------------------------------------------------------------
Punctuation == {".", ",", "?", "!"}

\* line 41: " ".join(text.split())
RECURSIVE split(_)
split(s) ==
    LET t == lstrip(s)
    IN IF t = <<>> THEN <<>>
       ELSE LET spaces == {n \in 1..Len(t) : IsSpace(t[n])}
                stop == IF spaces = {} THEN Len(t) + 1
                        ELSE CHOOSE n \in spaces : \A other \in spaces : n <= other
            IN <<SubSeq(t, 1, stop - 1)>> \o split(SubSeq(t, stop, Len(t)))

RECURSIVE join(_)
join(tokens) ==
    IF tokens = <<>> THEN <<>>
    ELSE IF Len(tokens) = 1 THEN tokens[1]
    ELSE tokens[1] \o <<" ">> \o join(Tail(tokens))

white_space_fix(text) == join(split(text))

\* lines 43-45
remove_punc(text) == SelectSeq(text, LAMBDA ch : ch \notin Punctuation)

\* lines 38-49
normalize_text(s) ==
    IF s = <<>> THEN <<>>
    ELSE white_space_fix(remove_punc(lower(s)))

\* collections.Counter(tokens)[tok]
Count(tokens, tok) == Cardinality({n \in 1..Len(tokens) : tokens[n] = tok})

RECURSIVE SumOver(_, _)
SumOver(S, f) ==
    IF S = {} THEN 0
    ELSE LET x == CHOOSE y \in S : TRUE
         IN f[x] + SumOver(S \ {x}, f)

\* lines 57-58: sum((Counter(pred) & Counter(truth)).values())
num_same(pred_tokens, truth_tokens) ==
    LET toks == {pred_tokens[n] : n \in 1..Len(pred_tokens)}
    IN SumOver(toks, [tok \in toks |->
           Min(Count(pred_tokens, tok), Count(truth_tokens, tok))])

calculate_f1_empty_is_zero(prediction, ground_truth) ==
    LET pred_tokens == split(normalize_text(prediction))
        truth_tokens == split(normalize_text(ground_truth))
        same == num_same(pred_tokens, truth_tokens)
        total == Len(pred_tokens) + Len(truth_tokens)
    IN IF Len(pred_tokens) = 0 \/ Len(truth_tokens) = 0 THEN 0
       ELSE IF same = 0 THEN 0
       ELSE (2 * 2000 * same + total) \div (2 * total)

\* lines 52-63; 2pr/(p+r) with p = same/|pred| and r = same/|truth| is
\* 2*same/(|pred|+|truth|)
calculate_f1(prediction, ground_truth) ==
    LET pred_tokens == split(normalize_text(prediction))
        truth_tokens == split(normalize_text(ground_truth))
        same == num_same(pred_tokens, truth_tokens)
        total == Len(pred_tokens) + Len(truth_tokens)
    IN IF Len(pred_tokens) = 0 \/ Len(truth_tokens) = 0
       THEN (IF pred_tokens = truth_tokens THEN 1000 ELSE 0)
       ELSE IF same = 0 THEN 0
       ELSE (2 * 2000 * same + total) \div (2 * total)

\* lines 66-67
calculate_em(prediction, ground_truth) ==
    IF normalize_text(prediction) = normalize_text(ground_truth) THEN 1000 ELSE 0

\* ------------------------------------------------------------------------
\* Specification SpecFinal: evaulate_final5.py, run_final_evaluation
\* ------------------------------------------------------------------------
MODELS_TO_TEST == <<"llama3", "phi3", "qwen3:8b", "gemma3:4b">>

\* the rows of golden-QA.csv
GroundTruth == <<"a", " ", "b">>

QuestionRow(n) == [question |-> n, answer |-> GroundTruth]

\* temperature is 0: the model's answer is fixed by the prompt
LlmAnswer(with_context) ==
    IF with_context THEN <<"A", " ", "b", ".">> ELSE <<"b">>

\* the text of an exception raised by the LLM endpoint or the vector store
ExceptionTexts == {"connection refused"}

ERROR == <<"E", "R", "R", "O", "R">>

\* one LLM call takes one tick of time.time()
LatencyTicks == 1

Unbound ==
    [res_b |-> <<>>, res_c |-> <<>>, f1_b |-> 0, em_b |-> 0, latency_b |-> 0,
     f1_c |-> 0, em_c |-> 0, latency_c |-> 0, tps |-> 0, error_status |-> "unbound"]

\* lines 118-124: LEVEL B
level_b(locals, ground_truth) ==
    LET res_b == LlmAnswer(FALSE)
    IN [locals EXCEPT !.res_b = res_b,
                      !.f1_b = calculate_f1(res_b, ground_truth),
                      !.em_b = calculate_em(res_b, ground_truth),
                      !.latency_b = LatencyTicks]

\* lines 131-142: LEVEL C after the retrieval; tps in tenths of a token
level_c(locals, ground_truth) ==
    LET res_c == LlmAnswer(TRUE)
    IN [locals EXCEPT !.res_c = res_c,
                      !.f1_c = calculate_f1(res_c, ground_truth),
                      !.em_c = calculate_em(res_c, ground_truth),
                      !.latency_c = LatencyTicks,
                      !.tps = IF LatencyTicks > 0
                              THEN (Len(split(res_c)) * 13) \div LatencyTicks ELSE 0,
                      !.error_status = "None"]

except_block_keeps_b(locals, e) ==
    [locals EXCEPT !.res_c = ERROR,
                   !.f1_c = 0, !.em_c = 0, !.latency_c = 0, !.tps = 0,
                   !.error_status = e]

\* lines 144-149
except_block(locals, e) ==
    [locals EXCEPT !.res_b = ERROR, !.res_c = ERROR,
                   !.f1_b = 0, !.em_b = 0, !.latency_b = 0,
                   !.f1_c = 0, !.em_c = 0, !.latency_c = 0, !.tps = 0,
                   !.error_status = e]

\* lines 116-149: the try statement; raised_at is where the iteration fails
try_question(locals, ground_truth, raised_at, e) ==
    IF raised_at = "invoke_b" THEN except_block(locals, e)
    ELSE IF raised_at \in {"similarity_search", "invoke_c"}
         THEN except_block(level_b(locals, ground_truth), e)
    ELSE level_c(level_b(locals, ground_truth), ground_truth)

\* lines 152-176 (the hardware reading and the empty human-evaluation
\* columns are left out)
log_row(model_name, i, item, l) ==
    [Model_Name |-> model_name,
     Question_ID |-> i + 1,
     Question |-> item.question,
     Ground_Truth |-> item.answer,
     Standard_LLM_Answer |-> l.res_b,
     Our_System_Answer |-> l.res_c,
     Score_NO_RAG |-> l.f1_b,
     Score_WITH_RAG |-> l.f1_c,
     Success_Increase |-> l.f1_c - l.f1_b,
     Latency |-> l.latency_c,
     Error_Status |-> l.error_status]

df_temp_current_model(rows) ==
    SelectSeq(rows, LAMBDA row : row.Model_Name = rows[Len(rows)].Model_Name)

\* line 180
df_temp(rows) == rows

InitFinal ==
    /\ fin_pc = "load_data"
    /\ fin_csv_ok = FALSE
    /\ test_data = <<>>
    /\ fin_model = 1
    /\ fin_done = 0
    /\ fin_locals = Unbound
    /\ fin_raised = "None"
    /\ all_logs = <<>>
    /\ report_file = [exists |-> FALSE, rows |-> <<>>]
    /\ fin_console = <<>>
    /\ IdleSourceMatch /\ IdleRetriever /\ IdleLoadCsv /\ IdleHybrid /\ IdleReranker /\ IdleCreateDb
    /\ IdleMetrics

\* lines 82-99
FinalLoadData ==
    /\ fin_pc = "load_data"
    /\ \/ \E n \in 0..MaxQuestions :
            /\ test_data' = [q \in 1..n |-> QuestionRow(q)]
            /\ fin_csv_ok' = TRUE
            /\ fin_pc' = "model"
            /\ UNCHANGED fin_console
       \/ /\ fin_console' = Append(fin_console, "CSV_ERROR")
          /\ fin_pc' = "returned"
          /\ UNCHANGED <<test_data, fin_csv_ok>>
    /\ UNCHANGED <<fin_model, fin_done, fin_locals, fin_raised, all_logs, report_file>>
    /\ UNCHANGED frameFinal

\* lines 101-109: the next model is constructed, or skipped when that fails
FinalStartModel ==
    /\ fin_pc = "model"
    /\ fin_model <= Len(MODELS_TO_TEST)
    /\ \/ /\ fin_pc' = "questions"
          /\ fin_done' = 0
          /\ UNCHANGED <<fin_model, fin_console>>
       \/ /\ fin_console' = Append(fin_console, "LOAD_WARNING")
          /\ fin_model' = fin_model + 1
          /\ UNCHANGED <<fin_pc, fin_done>>
    /\ UNCHANGED <<fin_csv_ok, test_data, fin_locals, fin_raised, all_logs, report_file>>
    /\ UNCHANGED frameFinal

\* lines 112-176: one iteration of the question loop
FinalQuestion ==
    /\ fin_pc = "questions"
    /\ fin_done < Len(test_data)
    /\ \E raised_at \in {"None", "invoke_b", "similarity_search", "invoke_c"},
          e \in ExceptionTexts :
        LET item == test_data[fin_done + 1]
            l == try_question(fin_locals, item.answer, raised_at, e)
        IN /\ fin_locals' = l
           /\ fin_raised' = raised_at
           /\ all_logs' = Append(all_logs,
                  log_row(MODELS_TO_TEST[fin_model], fin_done, item, l))
    /\ fin_done' = fin_done + 1
    /\ UNCHANGED <<fin_pc, fin_csv_ok, test_data, fin_model, report_file, fin_console>>
    /\ UNCHANGED frameFinal

\* lines 178-184: the intermediate save after a model's loop
FinalSave ==
    /\ fin_pc = "questions"
    /\ fin_done = Len(test_data)
    /\ \/ /\ report_file' = [exists |-> TRUE, rows |-> df_temp(all_logs)]
          /\ fin_console' = Append(fin_console, "SAVED")
       \/ /\ fin_console' = Append(fin_console, "WRITE_ERROR")
          /\ UNCHANGED report_file
    /\ fin_model' = fin_model + 1
    /\ fin_pc' = "model"
    /\ UNCHANGED <<fin_csv_ok, test_data, fin_done, fin_locals, fin_raised, all_logs>>
    /\ UNCHANGED frameFinal

\* line 186
FinalFinish ==
    /\ fin_pc = "model"
    /\ fin_model > Len(MODELS_TO_TEST)
    /\ fin_pc' = "returned"
    /\ UNCHANGED <<fin_csv_ok, test_data, fin_model, fin_done, fin_locals, fin_raised,
                   all_logs, report_file, fin_console>>
    /\ UNCHANGED frameFinal

NextFinal ==
    \/ FinalLoadData
    \/ FinalStartModel
    \/ FinalQuestion
    \/ FinalSave
    \/ FinalFinish

SpecFinal == InitFinal /\ [][NextFinal]_vars


ModelIndex(name) == CHOOSE m \in 1..Len(MODELS_TO_TEST) : MODELS_TO_TEST[m] = name

RowsOfModel(m) == SelectSeq(all_logs, LAMBDA row : row.Model_Name = MODELS_TO_TEST[m])

IsErrorRow(row) ==
    /\ row.Standard_LLM_Answer = ERROR
    /\ row.Our_System_Answer = ERROR
    /\ row.Score_NO_RAG = 0
    /\ row.Score_WITH_RAG = 0
    /\ row.Latency = 0

\* C2: an exception in either LLM call or in the retrieval leaves both
\* answers "ERROR", F1, EM, latency and tokens per second zero and
\* Error_Status the exception text; the question still gets its log row and
\* the loop goes on, so a model whose loop has finished has exactly one row
\* per question, in question order.
C2_ErrorRowAndContinue ==
    fin_csv_ok =>
      /\ fin_raised # "None" =>
            /\ fin_locals.res_b = ERROR /\ fin_locals.res_c = ERROR
            /\ fin_locals.f1_b = 0 /\ fin_locals.em_b = 0 /\ fin_locals.latency_b = 0
            /\ fin_locals.f1_c = 0 /\ fin_locals.em_c = 0 /\ fin_locals.latency_c = 0
            /\ fin_locals.tps = 0
            /\ fin_locals.error_status \in ExceptionTexts
            /\ all_logs # <<>>
            /\ all_logs[Len(all_logs)].Error_Status = fin_locals.error_status
      /\ \A n \in 1..Len(all_logs) :
            all_logs[n].Error_Status # "None" => IsErrorRow(all_logs[n])
      /\ \A m \in 1..Len(MODELS_TO_TEST) :
            LET rows == RowsOfModel(m)
                expected ==
                    IF m <= Len(fin_console)
                    THEN (IF fin_console[m] = "LOAD_WARNING" THEN 0 ELSE Len(test_data))
                    ELSE IF m = fin_model /\ fin_pc = "questions" THEN fin_done
                    ELSE 0
            IN /\ Len(rows) = expected
               /\ \A n \in 1..Len(rows) :
                     rows[n].Question_ID = n /\ rows[n].Question = test_data[n].question

\* C2 witness: a question raised an exception, its row was logged as an
\* error, and the next question of the same model was answered
C2_Witness ==
    /\ Len(all_logs) >= 2
    /\ all_logs[1].Error_Status # "None"
    /\ all_logs[2].Model_Name = all_logs[1].Model_Name
    /\ all_logs[2].Error_Status = "None"
    /\ all_logs[2].Score_WITH_RAG = 1000

LastSaved ==
    LET saved == {m \in 1..Len(fin_console) : fin_console[m] = "SAVED"}
    IN IF saved = {} THEN 0 ELSE CHOOSE m \in saved : \A other \in saved : other <= m

\* C8: after the question loop of each loaded model the report is rewritten
\* with every row logged so far, those of earlier models included; a failed
\* write changes nothing and the later models are still evaluated.
C8_SaveAfterEachModel ==
    fin_csv_ok =>
      /\ (fin_pc = "model" /\ fin_console # <<>> /\ fin_console[Len(fin_console)] = "SAVED")
            => report_file = [exists |-> TRUE, rows |-> all_logs]
      /\ IF LastSaved = 0 THEN ~report_file.exists
         ELSE /\ report_file.exists
              /\ report_file.rows =
                    SelectSeq(all_logs, LAMBDA row : ModelIndex(row.Model_Name) <= LastSaved)
      /\ \A m \in 1..Len(fin_console) :
            fin_console[m] \in {"SAVED", "WRITE_ERROR"} => Len(RowsOfModel(m)) = Len(test_data)
      /\ fin_pc = "returned" => Len(fin_console) = Len(MODELS_TO_TEST)
      /\ Len(fin_console) = fin_model - 1

\* C8 witness: the write after one model failed, the next model was
\* evaluated and its save holds the rows of both
C8_Witness ==
    /\ fin_pc = "model"
    /\ test_data # <<>>
    /\ \E m \in 1..(Len(fin_console) - 1) :
          /\ fin_console[m] = "WRITE_ERROR"
          /\ fin_console[m + 1] = "SAVED"
          /\ m + 1 = Len(fin_console)
    /\ Len(report_file.rows) >= 2 * Len(test_data)

\* ------------------------------------------------------------------------
\* Specification SpecHybrid: evaluate_retriever_exact_match6.py,
\* run_hybrid_evaluation.  A ROUGE-L F-measure is kept in tenths; mrr_sum
\* is kept in sixths, so that 1/1, 1/2 and 1/3 are whole numbers.
\* ------------------------------------------------------------------------
TOP_K == 3

SEMANTIC_THRESHOLD == 3

MrrScale == 6

\* scorer.score(ground_truth, doc.page_content)['rougeL'].fmeasure of a chunk
RougeScores == {2, 3}

HybridDocs == [metadata : ChunkMetas, rougeL : RougeScores]

HybridItem(n, with_path) ==
    IF with_path THEN [question |-> n, answer |-> GroundTruth, path |-> DocA]
    ELSE [question |-> n, answer |-> GroundTruth]

reciprocal_flat(found_rank) == MrrScale

\* line 119: 1.0 / found_rank
reciprocal(found_rank) == MrrScale \div found_rank

decision_semantic_only_without_path(has_path, src_match, sem_match) ==
    IF has_path /\ src_match THEN "source"
    ELSE IF ~has_path /\ sem_match THEN "semantic"
    ELSE "none"

\* lines 108-114: the hybrid decision
decision(has_path, src_match, sem_match) ==
    IF has_path /\ src_match THEN "source"
    ELSE IF sem_match THEN "semantic"
    ELSE "none"

\* lines 89-122: the loop over the retrieved chunks from position rank on;
\* st holds the locals of the question and the counters
RECURSIVE analyze(_, _, _, _)
analyze(docs, rank, target_source, st) ==
    IF rank >= Len(docs) THEN st
    ELSE LET doc == docs[rank + 1]
             retrieved_source == dict_get(doc.metadata, "source", <<>>)
             has_path == path_col # "None"
             src_match == IF has_path
                          THEN check_source_match(target_source, retrieved_source)
                          ELSE FALSE
             sem_score == doc.rougeL
             sem_match == sem_score >= SEMANTIC_THRESHOLD
             st1 == IF rank = 0
                    THEN [st EXCEPT !.best_doc_score = sem_score,
                                    !.best_doc_source = retrieved_source]
                    ELSE st
             how == decision(has_path, src_match, sem_match)
             st2 == IF how = "source" THEN [st1 EXCEPT !.is_source_match = TRUE]
                    ELSE IF how = "semantic" THEN [st1 EXCEPT !.is_semantic_match = TRUE]
                    ELSE st1
         IN IF how # "none"
            THEN LET st3 == IF st2.found_rank = -1
                            THEN [st2 EXCEPT !.found_rank = rank + 1,
                                             !.mrr_sum = @ + reciprocal(rank + 1),
                                             !.hits_1 = IF rank = 0 THEN @ + 1 ELSE @]
                            ELSE st2
                 IN [st3 EXCEPT !.hits_3 = @ + 1]
            ELSE analyze(docs, rank + 1, target_source, st2)

\* lines 125-133
hybrid_log_row(item, target_source, st) ==
    [Question |-> item.question,
     Target_Source |-> IF path_col # "None" THEN normalize_filename(target_source)
                       ELSE <<"-">>,
     Retrieved_Source |-> normalize_filename(st.best_doc_source),
     Source_Match |-> IF st.is_source_match THEN "YES" ELSE "NO",
     Semantic_Score |-> st.best_doc_score,
     Result |-> IF st.found_rank # -1 THEN "SUCCESS" ELSE "FAILURE",
     Found_At_Rank |-> st.found_rank]

InitHybrid ==
    /\ hy_pc = "load_csv"
    /\ hy_csv_ok = FALSE
    /\ path_col = "None"
    /\ hy_data = <<>>
    /\ hy_done = 0
    /\ hy_docs = <<>>
    /\ hy_locals = <<>>
    /\ hits_1 = 0
    /\ hits_3 = 0
    /\ mrr_sum = 0
    /\ logs = <<>>
    /\ hy_first_hit = <<>>
    /\ hy_report = <<>>
    /\ IdleSourceMatch /\ IdleRetriever /\ IdleLoadCsv /\ IdleFinal /\ IdleReranker /\ IdleCreateDb
    /\ IdleMetrics

\* lines 42-72: the store is opened, then the CSV is read
HybridLoadCsv ==
    /\ hy_pc = "load_csv"
    /\ \/ \E n \in 0..MaxQuestions, col \in {"path", "None"} :
            /\ path_col' = col
            /\ hy_data' = [q \in 1..n |-> HybridItem(q, col # "None")]
            /\ hy_csv_ok' = TRUE
            /\ hy_pc' = "questions"
       \/ /\ hy_pc' = "returned"
          /\ UNCHANGED <<path_col, hy_data, hy_csv_ok>>
    /\ UNCHANGED <<hy_done, hy_docs, hy_locals, hits_1, hits_3, mrr_sum, logs,
                   hy_first_hit, hy_report>>
    /\ UNCHANGED frameHybrid


\* a chunk that the evaluation accepts for the question
IsHitChunk(doc, target_source) ==
    \/ /\ path_col # "None"
       /\ check_source_match(target_source, dict_get(doc.metadata, "source", <<>>))
    \/ doc.rougeL >= SEMANTIC_THRESHOLD

\* the 1-based rank of the first accepted chunk, 0 when there is none
FirstHitRank(docs, target_source) ==
    LET accepted == {j \in 1..Len(docs) : IsHitChunk(docs[j], target_source)}
    IN IF accepted = {} THEN 0
       ELSE CHOOSE j \in accepted : \A other \in accepted : j <= other

\* lines 73-133: one iteration of the loop over the questions
HybridQuestion ==
    /\ hy_pc = "questions"
    /\ hy_done < Len(hy_data)
    /\ \E docs \in SeqsUpTo(HybridDocs, Min(TOP_K, MaxChunks)) :
        LET item == hy_data[hy_done + 1]
            target_source == IF path_col # "None" THEN item.path ELSE <<>>
            start == [found_rank |-> -1, is_source_match |-> FALSE,
                      is_semantic_match |-> FALSE, best_doc_score |-> 0,
                      best_doc_source |-> <<>>,
                      hits_1 |-> hits_1, hits_3 |-> hits_3, mrr_sum |-> mrr_sum]
            st == analyze(docs, 0, target_source, start)
        IN /\ hy_docs' = docs
           /\ hy_locals' = [found_rank |-> st.found_rank,
                            is_source_match |-> st.is_source_match,
                            is_semantic_match |-> st.is_semantic_match,
                            best_doc_score |-> st.best_doc_score,
                            best_doc_source |-> st.best_doc_source]
           /\ hits_1' = st.hits_1
           /\ hits_3' = st.hits_3
           /\ mrr_sum' = st.mrr_sum
           /\ logs' = Append(logs, hybrid_log_row(item, target_source, st))
           /\ hy_first_hit' = Append(hy_first_hit, FirstHitRank(docs, target_source))
    /\ hy_done' = hy_done + 1
    /\ UNCHANGED <<hy_pc, hy_csv_ok, path_col, hy_data, hy_report>>
    /\ UNCHANGED frameHybrid

\* lines 137-159: the rates divide by the number of questions
HybridReport ==
    /\ hy_pc = "questions"
    /\ hy_done = Len(hy_data)
    /\ LET total == Len(hy_data)
       IN IF total = 0
          THEN /\ hy_pc' = "ZeroDivisionError"
               /\ UNCHANGED hy_report
          ELSE /\ hy_report' = [hr_1 |-> <<hits_1, total>>,
                                hr_3 |-> <<hits_3, total>>,
                                mrr |-> <<mrr_sum, MrrScale * total>>]
               /\ hy_pc' = "returned"
    /\ UNCHANGED <<hy_csv_ok, path_col, hy_data, hy_done, hy_docs, hy_locals,
                   hits_1, hits_3, mrr_sum, logs, hy_first_hit>>
    /\ UNCHANGED frameHybrid

NextHybrid ==
    \/ HybridLoadCsv
    \/ HybridQuestion
    \/ HybridReport

SpecHybrid == InitHybrid /\ [][NextHybrid]_vars


\* 1/r in sixths, 0 for a question without a hit
SixthsOfReciprocal(r) == CHOOSE x \in 0..6 : IF r = 0 THEN x = 0 ELSE x * r = 6

RECURSIVE SumOfReciprocals(_)
SumOfReciprocals(ranks) ==
    IF ranks = <<>> THEN 0
    ELSE SixthsOfReciprocal(Head(ranks)) + SumOfReciprocals(Tail(ranks))

\* C5: mrr_sum is the sum over the processed questions of 1/r, r the rank of
\* the first hit among the top TOP_K chunks, 0 for a question without a hit;
\* the reported MRR is that sum divided by the number of questions.
C5_MrrIsSumOfReciprocalRanks ==
    hy_csv_ok =>
      /\ Len(hy_first_hit) = hy_done
      /\ \A q \in 1..Len(hy_first_hit) : hy_first_hit[q] \in 0..TOP_K
      /\ mrr_sum = SumOfReciprocals(hy_first_hit)
      /\ hy_pc = "returned" =>
            /\ hy_done = Len(hy_data)
            /\ hy_report.mrr = <<SumOfReciprocals(hy_first_hit), 6 * Len(hy_data)>>

\* C5 witness: the run is over, one question had its first hit at rank 2
\* and another had no hit
C5_Witness ==
    /\ hy_pc = "returned"
    /\ hy_csv_ok
    /\ \E q \in 1..Len(hy_first_hit) : hy_first_hit[q] = 2
    /\ \E q \in 1..Len(hy_first_hit) : hy_first_hit[q] = 0
    /\ mrr_sum = 3

LastTarget == IF path_col # "None" THEN hy_data[hy_done].path ELSE <<>>

SourceOf(doc) == dict_get(doc.metadata, "source", <<>>)

SourceAccepts(doc) ==
    path_col # "None" /\ check_source_match(LastTarget, SourceOf(doc))

SemanticAccepts(doc) == doc.rougeL >= SEMANTIC_THRESHOLD

INITIAL_K == 10

FINAL_K == 3

SCORE_THRESHOLD == 0

\* reranker.predict(pairs): the cross-encoder score of a chunk
RerankScores == {-1, 0, 1}

\* the chunks a query can return: chunks of the target document scored
\* above, at and below the threshold, and a well-scored chunk of another one
RerankHits ==
    [score : RerankScores, meta : {MetaOf(DocA)}] \cup {[score |-> 1, meta |-> MetaOf(DocB)]}

RerankItem(n) == [question |-> n, path |-> DocA]

\* position of x[n] in sorted(x, key=score, reverse=True): the sort is
\* stable, equal scores keep their order
SortedPosition(x, n) ==
    1 + Cardinality({m \in 1..Len(x) :
            \/ x[m].score > x[n].score
            \/ (x[m].score = x[n].score /\ m < n)})

\* line 81
sorted_by_score(x) ==
    [p \in 1..Len(x) |-> x[CHOOSE n \in 1..Len(x) : SortedPosition(x, n) = p]]

\* line 86
keeps(score) == score > SCORE_THRESHOLD

\* lines 84-87
filter_candidates(ranked) ==
    LET kept == SelectSeq(ranked, LAMBDA hit : keeps(hit.score))
    IN [n \in 1..Len(kept) |-> basename(dict_get(kept[n].meta, "source", <<>>))]

\* lines 95, 101: the two-way containment test
names_match(target_doc, cand) == str_in(target_doc, cand) \/ str_in(cand, target_doc)

InitReranker ==
    /\ rr_pc = "load_data"
    /\ rr_csv_ok = FALSE
    /\ rr_data = <<>>
    /\ rr_done = 0
    /\ rr_results = <<>>
    /\ ranked_results = <<>>
    /\ final_candidates = <<>>
    /\ top_k_candidates = <<>>
    /\ hits_at_1 = 0
    /\ hits_at_3 = 0
    /\ rr_queries = 0
    /\ IdleSourceMatch /\ IdleRetriever /\ IdleLoadCsv /\ IdleFinal /\ IdleHybrid /\ IdleCreateDb
    /\ IdleMetrics

\* lines 28-37 and 45-60: load_data returns the rows, or [] after printing
\* the CSV error
RerankLoadData ==
    /\ rr_pc = "load_data"
    /\ \/ \E n \in 0..MaxQuestions :
            /\ rr_data' = [q \in 1..n |-> RerankItem(q)]
            /\ rr_csv_ok' = TRUE
       \/ /\ rr_data' = <<>>
          /\ rr_csv_ok' = FALSE
    /\ rr_pc' = "questions"
    /\ UNCHANGED <<rr_done, rr_results, ranked_results, final_candidates,
                   top_k_candidates, hits_at_1, hits_at_3, rr_queries>>
    /\ UNCHANGED frameReranker

\* lines 62-105: one iteration of the loop over the questions
RerankQuestion ==
    /\ rr_pc = "questions"
    /\ rr_done < Len(rr_data)
    /\ \E found \in SeqsUpTo(RerankHits, Min(INITIAL_K, MaxChunks)) :
        LET target_doc == basename(rr_data[rr_done + 1].path)
            ranked == sorted_by_score(found)
            final == filter_candidates(ranked)
            top == Take(final, FINAL_K)
        IN /\ rr_results' = found
           /\ ranked_results' = ranked
           /\ final_candidates' = final
           /\ top_k_candidates' = top
           /\ hits_at_1' = IF Len(top) > 0 /\ names_match(target_doc, top[1])
                           THEN hits_at_1 + 1 ELSE hits_at_1
           /\ hits_at_3' = IF \E n \in 1..Len(top) : names_match(target_doc, top[n])
                           THEN hits_at_3 + 1 ELSE hits_at_3
    /\ rr_queries' = rr_queries + 1
    /\ rr_done' = rr_done + 1
    /\ UNCHANGED <<rr_pc, rr_csv_ok, rr_data>>
    /\ UNCHANGED frameReranker

\* lines 107-112: the report divides by len(data)
RerankReport ==
    /\ rr_pc = "questions"
    /\ rr_done = Len(rr_data)
    /\ rr_pc' = IF Len(rr_data) = 0 THEN "ZeroDivisionError" ELSE "returned"
    /\ UNCHANGED <<rr_csv_ok, rr_data, rr_done, rr_results, ranked_results,
                   final_candidates, top_k_candidates, hits_at_1, hits_at_3, rr_queries>>
    /\ UNCHANGED frameReranker

NextReranker ==
    \/ RerankLoadData
    \/ RerankQuestion
    \/ RerankReport

SpecReranker == InitReranker /\ [][NextReranker]_vars

\* C3: a failure to read the question CSV prints the error and ends the run
\* without a retrieval query and without an unhandled exception.
C3_CsvFailureAborts ==
    (rr_pc # "load_data" /\ ~rr_csv_ok) =>
        /\ rr_queries = 0
        /\ rr_pc # "ZeroDivisionError"

\* C10: final_candidates holds, in descending score order, every retrieved
\* chunk whose score is not lower than SCORE_THRESHOLD, a score equal to
\* the threshold included, and top_k_candidates are its first FINAL_K.
C10_KeepsScoresNotBelowThreshold ==
    rr_done >= 1 =>
        LET kept == SelectSeq(ranked_results, LAMBDA hit : ~(hit.score < SCORE_THRESHOLD))
        IN /\ \A n \in 1..(Len(ranked_results) - 1) :
                 ranked_results[n].score >= ranked_results[n + 1].score
           /\ Len(final_candidates) = Len(kept)
           /\ \A n \in 1..Len(kept) :
                 final_candidates[n] = basename(dict_get(kept[n].meta, "source", <<>>))
           /\ top_k_candidates =
                 SubSeq(final_candidates, 1, Min(FINAL_K, Len(final_candidates)))

\* ------------------------------------------------------------------------
\* Specification SpecCreateDb: createDB_1.py, the main block
\* ------------------------------------------------------------------------
EMBEDDING_MODELS == {"minilm", "bge"}

ChunkStrategies == {"fixed", "smart"}

\* line 93: f"vector_db_{chunk_strategy}_{embed_model_key}"
db_name(chunk_strategy, embed_model_key) == <<"vector_db", chunk_strategy, embed_model_key>>

AllDbNames == {db_name(st, key) : st \in ChunkStrategies, key \in EMBEDDING_MODELS}

Scenarios_fixed_bge ==
    <<<<"smart", "minilm">>, <<"fixed", "minilm">>, <<"fixed", "bge">>>>

\* lines 160-167: the calls of create_vector_db, in order
Scenarios == <<<<"smart", "minilm">>, <<"fixed", "minilm">>, <<"smart", "bge">>>>

\* len(embeddings.embed_query("test")) of the two models
embed_dim(embed_model_key) == 384

InitCreateDb ==
    /\ cdb_pc = "load_documents"
    /\ raw_docs \in 0..MaxDocs
    /\ vector_dbs \in [AllDbNames -> {"absent", "stale"}]
    /\ benchmark_metrics = <<>>
    /\ cdb_step = 1
    /\ metrics_json = <<>>
    /\ IdleSourceMatch /\ IdleRetriever /\ IdleLoadCsv /\ IdleFinal /\ IdleHybrid /\ IdleReranker
    /\ IdleMetrics

\* lines 153-159 and 38-53: load_documents exits when nothing was loaded
LoadDocuments ==
    /\ cdb_pc = "load_documents"
    /\ cdb_pc' = IF raw_docs = 0 THEN "exited" ELSE "create"
    /\ UNCHANGED <<raw_docs, vector_dbs, benchmark_metrics, cdb_step, metrics_json>>
    /\ UNCHANGED frameCreateDb

\* lines 92-146: create_vector_db for the next scenario.  The chunk count is
\* the splitter's; an exception of the embedding model or of the store ends
\* the run, before or after the old folder was removed.
CreateVectorDb ==
    /\ cdb_pc = "create"
    /\ cdb_step <= Len(Scenarios)
    /\ LET chunk_strategy == Scenarios[cdb_step][1]
           embed_model_key == Scenarios[cdb_step][2]
           name == db_name(chunk_strategy, embed_model_key)
       IN \/ \E total_chunks \in raw_docs..(raw_docs + 1), encoding_time \in {0, 1} :
               /\ vector_dbs' = [vector_dbs EXCEPT ![name] = "fresh"]
               /\ benchmark_metrics' =
                     [n \in DOMAIN benchmark_metrics \cup {name} |->
                        IF n = name
                        THEN [chunk_strategy |-> chunk_strategy,
                              embedding_model |-> embed_model_key,
                              encoding_time_sec |-> encoding_time,
                              embedding_dimension |-> embed_dim(embed_model_key),
                              total_chunks |-> total_chunks]
                        ELSE benchmark_metrics[n]]
               /\ cdb_step' = cdb_step + 1
               /\ UNCHANGED cdb_pc
          \/ /\ \E left \in {vector_dbs[name], "absent"} :
                   vector_dbs' = [vector_dbs EXCEPT ![name] = left]
             /\ cdb_pc' = "raised"
             /\ UNCHANGED <<benchmark_metrics, cdb_step>>
    /\ UNCHANGED <<raw_docs, metrics_json>>
    /\ UNCHANGED frameCreateDb

\* lines 169-174
DumpMetrics ==
    /\ cdb_pc = "create"
    /\ cdb_step > Len(Scenarios)
    /\ metrics_json' = benchmark_metrics
    /\ cdb_pc' = "done"
    /\ UNCHANGED <<raw_docs, vector_dbs, benchmark_metrics, cdb_step>>
    /\ UNCHANGED frameCreateDb

NextCreateDb ==
    \/ LoadDocuments
    \/ CreateVectorDb
    \/ DumpMetrics

SpecCreateDb == InitCreateDb /\ [][NextCreateDb]_vars

\* C6 as written: after the main run a store folder exists for every
\* combination of chunking strategy and embedding model, and
\* benchmark_metrics has an entry for each.
C6_StoreForEveryCombination ==
    cdb_pc = "done" =>
        \A st \in {"fixed", "smart"}, key \in {"minilm", "bge"} :
            /\ vector_dbs[<<"vector_db", st, key>>] # "absent"
            /\ <<"vector_db", st, key>> \in DOMAIN benchmark_metrics

\* C6 amended: after the main run a store was built for each of the three
\* combinations smart/minilm, fixed/minilm and smart/bge, each in its own
\* folder, benchmark_metrics holds exactly one entry for each of them, and
\* no store was built for fixed/bge.
C6_ThreeStores ==
    cdb_pc = "done" =>
        LET built == {<<"vector_db", "smart", "minilm">>,
                      <<"vector_db", "fixed", "minilm">>,
                      <<"vector_db", "smart", "bge">>}
        IN /\ \A name \in built : vector_dbs[name] = "fresh"
           /\ vector_dbs[<<"vector_db", "fixed", "bge">>] # "fresh"
           /\ DOMAIN benchmark_metrics = built
           /\ \A name \in built :
                 /\ benchmark_metrics[name].chunk_strategy = name[2]
                 /\ benchmark_metrics[name].embedding_model = name[3]
           /\ metrics_json = benchmark_metrics

\* C6 witness: the run completed with no folder for fixed/bge on disk
C6_Witness ==
    /\ cdb_pc = "done"
    /\ vector_dbs[<<"vector_db", "fixed", "bge">>] = "absent"
    /\ vector_dbs[<<"vector_db", "smart", "bge">>] = "fresh"


\* the chunks the loop of the last question looked at: up to the hit
AnalysedChunks ==
    IF hy_locals.found_rank # -1 THEN 1..hy_locals.found_rank ELSE 1..Len(hy_docs)

\* C12: the Semantic_Score and Retrieved_Source of a question's log row are
\* those of the best retrieved chunk, the one with the highest semantic
\* score among the top-K chunks analysed for the question.
C12_LogsBestChunk ==
    (hy_csv_ok /\ hy_done >= 1 /\ hy_docs # <<>>) =>
        \E best \in AnalysedChunks :
            /\ \A j \in AnalysedChunks : hy_docs[j].rougeL <= hy_docs[best].rougeL
            /\ logs[hy_done].Semantic_Score = hy_docs[best].rougeL
            /\ logs[hy_done].Retrieved_Source = normalize_filename(SourceOf(hy_docs[best]))


\* ------------------------------------------------------------------------
\* Specification SpecMetrics: calculate_em and calculate_f1 on every pair of
\* texts
\* ------------------------------------------------------------------------
TextChars == {"a", "A", " ", "."}

MetricTexts == SeqsUpTo(TextChars, MaxTextLen)

InitMetrics ==
    /\ mt_pc = "call"
    /\ mt_prediction \in MetricTexts
    /\ mt_ground_truth \in MetricTexts
    /\ mt_em = 0
    /\ mt_f1 = 0
    /\ IdleSourceMatch /\ IdleRetriever /\ IdleLoadCsv /\ IdleFinal /\ IdleHybrid /\ IdleReranker
    /\ IdleCreateDb

\* lines 52-67
CallMetrics ==
    /\ mt_pc = "call"
    /\ mt_em' = calculate_em(mt_prediction, mt_ground_truth)
    /\ mt_f1' = calculate_f1(mt_prediction, mt_ground_truth)
    /\ mt_pc' = "done"
    /\ UNCHANGED <<mt_prediction, mt_ground_truth>>
    /\ UNCHANGED frameMetrics

NextMetrics == CallMetrics

SpecMetrics == InitMetrics /\ [][NextMetrics]_vars

\* the letters of a text that normalization keeps, lower-cased
KeptText(s) ==
    LET kept == SelectSeq(s, LAMBDA ch : ch \notin Punctuation)
    IN [n \in 1..Len(kept) |-> LowerChar(kept[n])]

\* the positions where a word of t starts, and the word that starts there
WordStarts(t) ==
    {n \in 1..Len(t) : t[n] # " " /\ (n = 1 \/ t[n - 1] = " ")}

WordAt(t, n) ==
    LET stops == {m \in n..Len(t) : m = Len(t) \/ t[m + 1] = " "}
    IN SubSeq(t, n, CHOOSE m \in stops : \A other \in stops : m <= other)

\* the words of a text after normalization, in their order
WordsOf(s) ==
    LET t == KeptText(s)
        starts == WordStarts(t)
        nth(k) == CHOOSE n \in starts : Cardinality({m \in starts : m < n}) = k - 1
    IN [k \in 1..Cardinality(starts) |-> WordAt(t, nth(k))]

WordSet(s) == {WordsOf(s)[k] : k \in 1..Len(WordsOf(s))}

EqualAfterNormalization == WordsOf(mt_prediction) = WordsOf(mt_ground_truth)

ShareNoToken == WordSet(mt_prediction) \cap WordSet(mt_ground_truth) = {}

BothNormalizeToEmpty == WordsOf(mt_prediction) = <<>> /\ WordsOf(mt_ground_truth) = <<>>

\* C13 as stated: calculate_em returns 1 exactly when the two texts are equal
\* after normalization, calculate_f1 returns 1 whenever calculate_em does,
\* and calculate_f1 returns 0 whenever the normalized texts share no token.
C13_F1ZeroWithoutSharedToken ==
    mt_pc = "done" =>
        /\ mt_em = 1000 <=> EqualAfterNormalization
        /\ mt_em = 1000 => mt_f1 = 1000
        /\ ShareNoToken => mt_f1 = 0

\* C13: calculate_em returns 1 exactly when the two texts are equal after
\* normalization and 0 otherwise; whenever it returns 1 calculate_f1 returns
\* 1 as well, also when both texts normalize to the empty text; and
\* calculate_f1 returns 0 when the normalized texts share no token and are
\* not both empty.
C13_EmAndF1 ==
    mt_pc = "done" =>
        /\ mt_em \in {0, 1000}
        /\ mt_em = 1000 <=> EqualAfterNormalization
        /\ mt_em = 1000 => mt_f1 = 1000
        /\ BothNormalizeToEmpty => (mt_em = 1000 /\ mt_f1 = 1000)
        /\ (ShareNoToken /\ ~BothNormalizeToEmpty) => mt_f1 = 0

\* C13 witness: two different texts with the same words get EM 1 and F1 1
C13_Witness ==
    /\ mt_pc = "done"
    /\ mt_prediction # mt_ground_truth
    /\ WordsOf(mt_prediction) # <<>>
    /\ mt_em = 1000
    /\ mt_f1 = 1000

\* C13 witness of the empty case: both texts normalize to the empty text
C13_WitnessBothEmpty ==
    /\ mt_pc = "done"
    /\ mt_prediction # mt_ground_truth
    /\ BothNormalizeToEmpty
    /\ mt_f1 = 1000

\* C13 witness of the last clause: no word in common, F1 0
C13_WitnessNoSharedToken ==
    /\ mt_pc = "done"
    /\ WordsOf(mt_prediction) # <<>>
    /\ WordsOf(mt_ground_truth) # <<>>
    /\ ShareNoToken
    /\ mt_f1 = 0

====
